---- MODULE Spec2Model ----
(***************************************************************************)
(* A model of adjustdb.py (MariaDB Advanced Database Synchronizer):        *)
(* schema extraction, classification of the tables of two schemas,         *)
(* difference reports, interactive selection and the generation of the     *)
(* structure and data statement lists.                                     *)
(*                                                                         *)
(* Statements are modelled as the strings the program builds.  A Python    *)
(* value that may be None (COLUMN_DEFAULT) is a sequence of length 0       *)
(* (None) or 1 (the string).  A dict is a function; its key set is DOMAIN. *)
(***************************************************************************)
EXTENDS Integers, Sequences, FiniteSets, TLC

VARIABLES
    schema1,        \* main: schema1, as returned by get_database_schema
    schema2,        \* main: schema2
    differences,    \* main: differences, as returned by analyze_differences
    summary,        \* what show_analysis_summary printed per modified table
    shown,          \* what show_detailed_table_differences printed last
    selections,     \* interactive_selection: selections
    sel,            \* interactive_selection: position (phase and index)
    structure_sql,  \* syncer.structure_sql
    structure_prev, \* the statement list of the preceding generation (API use)
    catalogs,       \* what the catalog of each connection listed when it was
                    \* extracted (kept when get_database_schema is called
                    \* directly)
    hash_order,     \* the set iteration order of the process, once a
                    \* generation has drawn it (API use)
    data_sql,       \* syncer.data_sql
    choice,         \* interactive_selection: choice, the last answer read
    files,          \* save_sql_files: the lines written to the two files
    exec_log,       \* what the target connection was asked to do, in order
    exec_i,         \* execute_sync: index of the statement the loop is at
    sync_result,    \* execute_sync: how the call ended
    apply_changes,  \* main: apply_changes, the answer to the apply prompt
    pc              \* position in main / in the API driver

vars == <<schema1, schema2, differences, summary, shown, selections,
          sel, structure_sql, structure_prev, catalogs, hash_order, data_sql, choice,
          files, exec_log, exec_i, sync_result, apply_changes, pc>>

\* what save_sql_files and execute_sync write
execVars == <<files, exec_log, exec_i, sync_result>>

-----------------------------------------------------------------------------
(* Bounds and input domains *)

\* table a ranges over the first NumDefsA definitions of AllTableDefs
NumDefsA == 7
\* the queries of the loop of get_database_schema that may raise: the first
\* MaxFailStage of SHOW CREATE TABLE, columns, SHOW INDEX, foreign keys
MaxFailStage == 2
\* number of distinct values datetime.now() may format to during a run
NumTimestamps == 2
\* largest number of entries of a selection handed directly to the generators
MaxApiEntries == 2
\* largest number of statements the target database rejects in one
\* execute_sync
MaxExecFailures == 1

\* every table name, in the order sorted() gives
TableNames == <<"a", "b">>
\* every column name, in the order sorted() gives
ColNames == <<"x", "y", "z">>
\* every index name, in the order sorted() gives
IndexNames == <<"PRIMARY", "idx_xy">>

\* the backquote of the SQL texts: a TLA+ string cannot hold that character,
\* so the apostrophe stands for it in every string of the model
BQ == "'"

None == << >>
Some(s) == <<s>>

Col(n, t, nl, d, e) ==
    [COLUMN_NAME |-> n, COLUMN_TYPE |-> t, IS_NULLABLE |-> nl,
     COLUMN_DEFAULT |-> d, EXTRA |-> e]

Idx(k, c) == [Key_name |-> k, Column_name |-> c]

Fk(n, c, rt, rc, ur, dr) ==
    [CONSTRAINT_NAME |-> n, COLUMN_NAME |-> c, REFERENCED_TABLE_NAME |-> rt,
     REFERENCED_COLUMN_NAME |-> rc, UPDATE_RULE |-> ur, DELETE_RULE |-> dr]

TableDef(cols, idxs, fks, body) ==
    [columns |-> cols, indexes |-> idxs, foreign_keys |-> fks, body |-> body]

\* the table definitions a database may hold: the rows of
\* INFORMATION_SCHEMA.COLUMNS by ordinal position, the rows of SHOW INDEX,
\* the foreign keys with their rules, and the body of SHOW CREATE TABLE
AllTableDefs == <<
    TableDef(<< Col("x", "int(11)", "NO", None, "") >>, << >>, << >>,
             "'x' int(11) NOT NULL"),
    TableDef(<< Col("x", "int(11)", "NO", None, "auto_increment") >>,
             << >>, << >>,
             "'x' int(11) NOT NULL AUTO_INCREMENT"),
    TableDef(<< Col("x", "int(11)", "NO", None, ""),
                Col("y", "varchar(20)", "YES", None, "") >>, << >>, << >>,
             "'x' int(11) NOT NULL, 'y' varchar(20) DEFAULT NULL"),
    TableDef(<< Col("x", "bigint(20)", "NO", None, ""),
                Col("y", "varchar(20)", "NO", Some("0"), "") >>, << >>, << >>,
             "'x' bigint(20) NOT NULL, 'y' varchar(20) NOT NULL DEFAULT 0"),
    TableDef(<< Col("x", "int(11)", "NO", Some("None"), "") >>, << >>, << >>,
             "'x' int(11) NOT NULL DEFAULT None"),
    TableDef(<< Col("z", "int(11)", "YES", Some("0"), ""),
                Col("y", "varchar(10)", "YES", None, "") >>, << >>, << >>,
             "'z' int(11) DEFAULT 0, 'y' varchar(10) DEFAULT NULL"),
    TableDef(<< Col("x", "int(11)", "NO", None, "") >>,
             << Idx("PRIMARY", "x") >>,
             << Fk("fk_b", "x", "b", "x", "CASCADE", "CASCADE") >>,
             "'x' int(11) NOT NULL, PRIMARY KEY ('x'), CONSTRAINT 'fk_b' "
             \o "FOREIGN KEY ('x') REFERENCES 'b' ('x') ON DELETE CASCADE "
             \o "ON UPDATE CASCADE"),
    TableDef(<< Col("x", "int(11)", "YES", Some(""), ""),
                Col("z", "int(11)", "NO", None, "") >>, << >>, << >>,
             "'x' int(11) DEFAULT '', 'z' int(11) NOT NULL"),
    TableDef(<< Col("y", "varchar(20)", "YES", None, ""),
                Col("x", "int(11)", "NO", None, "") >>, << >>, << >>,
             "'y' varchar(20) DEFAULT NULL, 'x' int(11) NOT NULL"),
    TableDef(<< Col("x", "int(11)", "NO", None, ""),
                Col("y", "varchar(20)", "YES", None, "") >>,
             << Idx("idx_xy", "x"), Idx("idx_xy", "y") >>, << >>,
             "'x' int(11) NOT NULL, 'y' varchar(20) DEFAULT NULL, "
             \o "KEY 'idx_xy' ('x','y')"),
    TableDef(<< Col("x", "int(11)", "NO", None, ""),
                Col("y", "varchar(30)", "YES", None, "") >>,
             << Idx("idx_xy", "y"), Idx("idx_xy", "x") >>, << >>,
             "'x' int(11) NOT NULL, 'y' varchar(30) DEFAULT NULL, "
             \o "KEY 'idx_xy' ('y','x')")
>>

Min(i, j) == IF i < j THEN i ELSE j

\* table b has the first definition of AllTableDefs
NumDefs(t) == IF t = "a" THEN Min(NumDefsA, Len(AllTableDefs)) ELSE 1

\* TABLE_ROWS reported for a table
RowsOf(t) == IF t = "a" THEN 5000 ELSE 0

CatalogTable(t, i) ==
    [create_statement |-> "CREATE TABLE " \o BQ \o t \o BQ \o " ("
                          \o AllTableDefs[i].body \o ") ENGINE=InnoDB",
     rows |-> RowsOf(t),
     columns |-> AllTableDefs[i].columns,
     indexes |-> AllTableDefs[i].indexes,
     foreign_keys |-> AllTableDefs[i].foreign_keys]

Range(s) == {s[i] : i \in 1..Len(s)}

\* the databases: every set of tables, each with one of its definitions
Databases ==
    UNION {
        { [t \in T |-> CatalogTable(t, pick[t])] :
            pick \in { p \in [T -> 1..Len(AllTableDefs)] :
                         \A t \in T : p[t] <= NumDefs(t) } }
        : T \in SUBSET Range(TableNames) }

\* the definitions table a has in the databases of the whole run and of
\* the generators called directly
RunDefs == {3, 4}

\* the databases of the whole run and of the generators called directly:
\* table b, when there, has its first definition
RunDatabases ==
    {db \in Databases :
        /\ "a" \in DOMAIN db =>
              \E i \in RunDefs : db["a"] = CatalogTable("a", i)
        /\ "b" \in DOMAIN db => db["b"] = CatalogTable("b", 1)}

-----------------------------------------------------------------------------
(* Python helpers *)

\* sorted(S) for a set of table names
SortedTables(S) == SelectSeq(TableNames, LAMBDA t : t \in S)

\* sorted(S) for a set of column names
SortedCols(S) == SelectSeq(ColNames, LAMBDA c : c \in S)

\* str(v) for a value that is None or a string
Str(v) == IF v = None THEN "None" ELSE v[1]

StartsWith(s, p) == Len(s) >= Len(p) /\ SubSeq(s, 1, Len(p)) = p

\* str.strip() of a string that starts with a non-blank character
RECURSIVE Strip(_)
Strip(s) ==
    IF Len(s) > 0 /\ SubSeq(s, Len(s), Len(s)) = " "
    THEN Strip(SubSeq(s, 1, Len(s) - 1))
    ELSE s

\* the dict comprehension of the rows of a table, keyed by COLUMN_NAME
ColDict(rows) ==
    [n \in {rows[i].COLUMN_NAME : i \in 1..Len(rows)} |->
        LET i == CHOOSE j \in 1..Len(rows) :
                    /\ rows[j].COLUMN_NAME = n
                    /\ \A k \in (j+1)..Len(rows) : rows[k].COLUMN_NAME # n
        IN rows[i]]

\* d[k] of a defaultdict(list): the value, or [] for a missing key
GetCols(schema, t) ==
    IF t \in DOMAIN schema.columns THEN schema.columns[t] ELSE << >>

\* the schema after d[k] of its defaultdict(list) columns was evaluated
TouchCols(schema, T) ==
    [schema EXCEPT !.columns =
        [t \in (DOMAIN schema.columns) \cup T |-> GetCols(schema, t)]]

-----------------------------------------------------------------------------
(* get_database_schema *)

EmptySchema ==
    [tables |-> << >>, columns |-> << >>, indexes |-> << >>,
     foreign_keys |-> << >>, table_info |-> << >>]

NoFail == [at |-> 0, stage |-> "none", fallback |-> {}]

\* the stages of the loop body for one table, in the order of the code
Stages == <<"create", "columns", "indexes", "fk">>

StageNo(st) == CHOOSE i \in 1..Len(Stages) : Stages[i] = st

\* how the queries of get_database_schema may raise: the catalog query
\* (at = 0); or, for the at-th table, SHOW CREATE TABLE ("create"), the
\* column query ("columns"), SHOW INDEX ("indexes") or both foreign key
\* queries ("fk").  fallback: the tables before it whose first foreign key
\* query raised and whose second one answered
FailPoints(db) ==
    LET order == SelectSeq(TableNames, LAMBDA t : t \in DOMAIN db)
        n == Len(order)
    IN {[NoFail EXCEPT !.fallback = F] : F \in SUBSET DOMAIN db}
       \cup {[at |-> 0, stage |-> "catalog", fallback |-> {}]}
       \cup UNION {
              {[at |-> k, stage |-> st, fallback |-> F] :
                 st \in {Stages[i] : i \in 1..Min(MaxFailStage, Len(Stages))},
                 F \in SUBSET {order[i] : i \in 1..(k - 1)}}
              : k \in 1..n }

\* the rows of the second foreign key query: every rule reads RESTRICT
RestrictRules(fks) ==
    [i \in 1..Len(fks) |->
        [fks[i] EXCEPT !.UPDATE_RULE = "RESTRICT", !.DELETE_RULE = "RESTRICT"]]

\* the tables of db for which the loop of get_database_schema completed the
\* step of stage st: the loop takes the tables by name and ends at the first
\* query that raises
Completed(db, fail, st) ==
    LET order == SelectSeq(TableNames, LAMBDA t : t \in DOMAIN db)
        idx(t) == CHOOSE i \in 1..Len(order) : order[i] = t
    IN {t \in DOMAIN db :
          \/ fail.stage = "none"
          \/ /\ fail.stage # "catalog"
             /\ \/ idx(t) < fail.at
                \/ idx(t) = fail.at /\ StageNo(st) < StageNo(fail.stage)}

\* the tables whose table_info entry was assigned: the step before "create"
Listed(db, fail) ==
    LET order == SelectSeq(TableNames, LAMBDA t : t \in DOMAIN db)
        idx(t) == CHOOSE i \in 1..Len(order) : order[i] = t
    IN {t \in DOMAIN db :
          \/ fail.stage = "none"
          \/ fail.stage # "catalog" /\ idx(t) <= fail.at}

get_database_schema(db, fail) ==
    [tables |-> [t \in Completed(db, fail, "create") |->
                    [create_statement |-> db[t].create_statement,
                     rows |-> db[t].rows]],
     columns |-> [t \in Completed(db, fail, "columns") |-> db[t].columns],
     indexes |-> [t \in Completed(db, fail, "indexes") |-> db[t].indexes],
     foreign_keys |->
        [t \in Completed(db, fail, "fk") |->
            IF t \in fail.fallback
            THEN RestrictRules(db[t].foreign_keys)
            ELSE db[t].foreign_keys],
     table_info |-> [t \in Listed(db, fail) |-> [TABLE_ROWS |-> db[t].rows]]]

-----------------------------------------------------------------------------
(* table_has_differences and analyze_differences *)

\* str() applied to one side of the default comparison only
ColumnDiffers_StrOneSide(col1, col2) ==
    \/ col1.COLUMN_TYPE # col2.COLUMN_TYPE
    \/ col1.IS_NULLABLE # col2.IS_NULLABLE
    \/ Some(Str(col1.COLUMN_DEFAULT)) # col2.COLUMN_DEFAULT
    \/ col1.EXTRA # col2.EXTRA

\* the comparison without EXTRA
ColumnDiffers_NoExtra(col1, col2) ==
    \/ col1.COLUMN_TYPE # col2.COLUMN_TYPE
    \/ col1.IS_NULLABLE # col2.IS_NULLABLE
    \/ Str(col1.COLUMN_DEFAULT) # Str(col2.COLUMN_DEFAULT)

\* the comparison of two rows of the same column in table_has_differences
ColumnDiffers(col1, col2) ==
    \/ col1.COLUMN_TYPE # col2.COLUMN_TYPE
    \/ col1.IS_NULLABLE # col2.IS_NULLABLE
    \/ Str(col1.COLUMN_DEFAULT) # Str(col2.COLUMN_DEFAULT)
    \/ col1.EXTRA # col2.EXTRA

table_has_differences(table_name, s1, s2) ==
    IF table_name \notin DOMAIN s1.columns \/ table_name \notin DOMAIN s2.columns
    THEN TRUE
    ELSE LET cols1 == ColDict(s1.columns[table_name])
             cols2 == ColDict(s2.columns[table_name])
         IN IF DOMAIN cols1 # DOMAIN cols2
            THEN TRUE
            ELSE \E c \in DOMAIN cols1 \cap DOMAIN cols2 :
                    ColumnDiffers(cols1[c], cols2[c])

NoDifferences ==
    [new_tables |-> << >>, removed_tables |-> << >>,
     modified_tables |-> << >>, identical_tables |-> << >>]

\* every common table appended to identical_tables, modified or not
analyze_differences_NoElse(s1, s2) ==
    LET tables1 == DOMAIN s1.tables
        tables2 == DOMAIN s2.tables
        common == tables1 \cap tables2
    IN [new_tables |-> SortedTables(tables1 \ tables2),
        removed_tables |-> SortedTables(tables2 \ tables1),
        modified_tables |->
            SortedTables({t \in common : table_has_differences(t, s1, s2)}),
        identical_tables |-> SortedTables(common)]

analyze_differences(s1, s2) ==
    LET tables1 == DOMAIN s1.tables
        tables2 == DOMAIN s2.tables
        common == tables1 \cap tables2
    IN [new_tables |-> SortedTables(tables1 \ tables2),
        removed_tables |-> SortedTables(tables2 \ tables1),
        modified_tables |->
            SortedTables({t \in common : table_has_differences(t, s1, s2)}),
        identical_tables |->
            SortedTables({t \in common : ~table_has_differences(t, s1, s2)})]

-----------------------------------------------------------------------------
(* show_table_differences and show_detailed_table_differences: the reports *)

\* the condition under which show_table_differences lists a shared column
SummaryColumnDiffers(col1, col2) ==
    \/ col1.COLUMN_TYPE # col2.COLUMN_TYPE
    \/ col1.IS_NULLABLE # col2.IS_NULLABLE
    \/ col1.COLUMN_DEFAULT # col2.COLUMN_DEFAULT

\* the three lines show_table_differences prints, each a sorted name list
show_table_differences(table_name, s1, s2) ==
    LET cols1 == ColDict(GetCols(s1, table_name))
        cols2 == ColDict(GetCols(s2, table_name))
    IN [new_cols |-> SortedCols(DOMAIN cols1 \ DOMAIN cols2),
        removed_cols |-> SortedCols(DOMAIN cols2 \ DOMAIN cols1),
        modified_cols |->
            SortedCols({c \in DOMAIN cols1 \cap DOMAIN cols2 :
                          SummaryColumnDiffers(cols1[c], cols2[c])})]

NullWord(col) == IF col.IS_NULLABLE = "YES" THEN "NULL" ELSE "NOT NULL"

\* x or fallback, for x a string or None
OrElse(v, fallback) == IF v = None \/ v[1] = "" THEN fallback ELSE v[1]

\* the list differences of show_detailed_table_differences for one column
FieldDeltas(col1, col2) ==
    (IF col1.COLUMN_TYPE # col2.COLUMN_TYPE
     THEN << "Type: " \o col2.COLUMN_TYPE \o " → " \o col1.COLUMN_TYPE >>
     ELSE << >>)
    \o (IF col1.IS_NULLABLE # col2.IS_NULLABLE
        THEN << "Nullable: " \o NullWord(col2) \o " → " \o NullWord(col1) >>
        ELSE << >>)
    \o (IF Str(col1.COLUMN_DEFAULT) # Str(col2.COLUMN_DEFAULT)
        THEN << "Default: " \o OrElse(col2.COLUMN_DEFAULT, "NULL") \o " → "
                \o OrElse(col1.COLUMN_DEFAULT, "NULL") >>
        ELSE << >>)
    \o (IF col1.EXTRA # col2.EXTRA
        THEN << "Extra: " \o (IF col2.EXTRA = "" THEN "(none)" ELSE col2.EXTRA)
                \o " → " \o (IF col1.EXTRA = "" THEN "(none)" ELSE col1.EXTRA) >>
        ELSE << >>)

\* ', '.join(names)
RECURSIVE JoinNames(_)
JoinNames(names) ==
    IF names = << >> THEN ""
    ELSE IF Len(names) = 1 THEN names[1]
    ELSE names[1] \o ", " \o JoinNames(Tail(names))

\* the rows of SHOW INDEX grouped by Key_name: each name with the
\* Column_name of its rows, in the order of the rows
GroupIndexes(rows) ==
    [k \in {rows[i].Key_name : i \in 1..Len(rows)} |->
        LET mine == SelectSeq(rows, LAMBDA r : r.Key_name = k)
        IN [i \in 1..Len(mine) |-> mine[i].Column_name]]

\* schema.get('indexes', {}).get(table_name, [])
GetIndexes(schema, t) ==
    IF t \in DOMAIN schema.indexes THEN schema.indexes[t] ELSE << >>

\* the lines show_index_differences prints under NEW INDEXES and under
\* REMOVED INDEXES: the names of one dictionary that the other lacks, sorted
show_index_differences(table_name, s1, s2) ==
    LET idx1_dict == GroupIndexes(GetIndexes(s1, table_name))
        idx2_dict == GroupIndexes(GetIndexes(s2, table_name))
        new_indexes == DOMAIN idx1_dict \ DOMAIN idx2_dict
        removed_indexes == DOMAIN idx2_dict \ DOMAIN idx1_dict
        news == SelectSeq(IndexNames, LAMBDA k : k \in new_indexes)
        gone == SelectSeq(IndexNames, LAMBDA k : k \in removed_indexes)
    IN [new_indexes |->
            [i \in 1..Len(news) |->
                news[i] \o ": (" \o JoinNames(idx1_dict[news[i]]) \o ")"],
        removed_indexes |->
            [i \in 1..Len(gone) |->
                gone[i] \o ": (" \o JoinNames(idx2_dict[gone[i]]) \o ")"]]

NoShown ==
    [table |-> "", is_new_table |-> FALSE, new_cols |-> << >>,
     removed_cols |-> << >>, modified_cols |-> {},
     new_indexes |-> << >>, removed_indexes |-> << >>]

\* what show_detailed_table_differences prints: for a new table its name,
\* for a table of both schemas the new, the removed and the modified columns
\* (modified_cols is printed in the iteration order of a set: kept as a set)
show_detailed_table_differences(table_name, s1, s2, is_new_table) ==
    IF is_new_table
    THEN [NoShown EXCEPT !.table = table_name, !.is_new_table = TRUE]
    ELSE LET cols1 == ColDict(GetCols(s1, table_name))
             cols2 == ColDict(GetCols(s2, table_name))
         IN [table |-> table_name,
             is_new_table |-> FALSE,
             new_cols |-> SortedCols(DOMAIN cols1 \ DOMAIN cols2),
             removed_cols |-> SortedCols(DOMAIN cols2 \ DOMAIN cols1),
             modified_cols |->
                {<<c, FieldDeltas(cols1[c], cols2[c])>> :
                    c \in {d \in DOMAIN cols1 \cap DOMAIN cols2 :
                             FieldDeltas(cols1[d], cols2[d]) # << >>}},
             new_indexes |->
                show_index_differences(table_name, s1, s2).new_indexes,
             removed_indexes |->
                show_index_differences(table_name, s1, s2).removed_indexes]

-----------------------------------------------------------------------------
(* generate_table_modifications *)

\* the text after the column name in an ADD COLUMN or MODIFY COLUMN
\* statement, before strip(): type, null clause, default clause, extra clause
ColumnClause(col) ==
    col.COLUMN_TYPE \o " " \o NullWord(col) \o " "
    \o (IF col.COLUMN_DEFAULT # None
        THEN "DEFAULT " \o col.COLUMN_DEFAULT[1] ELSE "")
    \o " " \o col.EXTRA

AlterHead(table_name) == "ALTER TABLE " \o BQ \o table_name \o BQ \o " "

AddColumnStmt(table_name, col) ==
    Strip(AlterHead(table_name) \o "ADD COLUMN " \o BQ \o col.COLUMN_NAME \o BQ
          \o " " \o ColumnClause(col)) \o ";"

DropColumnStmt(table_name, c) ==
    AlterHead(table_name) \o "DROP COLUMN " \o BQ \o c \o BQ \o ";"

ModifyColumnStmt(table_name, col) ==
    Strip(AlterHead(table_name) \o "MODIFY COLUMN " \o BQ \o col.COLUMN_NAME
          \o BQ \o " " \o ColumnClause(col)) \o ";"

\* the condition under which generate_table_modifications modifies a column
NeedsModify(col1, col2) ==
    \/ col1.COLUMN_TYPE # col2.COLUMN_TYPE
    \/ col1.IS_NULLABLE # col2.IS_NULLABLE
    \/ col1.COLUMN_DEFAULT # col2.COLUMN_DEFAULT
    \/ col1.EXTRA # col2.EXTRA

\* every order in which the column names can be iterated
RECURSIVE Perms(_)
Perms(S) ==
    IF S = {} THEN { << >> }
    ELSE UNION { { <<c>> \o p : p \in Perms(S \ {c}) } : c \in S }

IterationOrders == Perms(Range(ColNames))

\* the elements of set S of column names in iteration order: Python iterates
\* a set of strings in an order that depends on the hash seed of the process
Iterate(S, order) == SelectSeq(order, LAMBDA c : c \in S)

\* the row of the target for a column both sides have
StatementColumn_Target(cols1, cols2, c) ==
    IF c \in DOMAIN cols2 THEN cols2[c] ELSE cols1[c]

\* the column whose row a statement is built from
StatementColumn(cols1, cols2, c) == cols1[c]

\* the three loops, in the order of the code
ModificationPhases(adds, drops, modifies) == adds \o drops \o modifies

generate_table_modifications(table_name, s1, s2, order) ==
    LET cols1 == ColDict(GetCols(s1, table_name))
        cols2 == ColDict(GetCols(s2, table_name))
        new_cols == Iterate(DOMAIN cols1 \ DOMAIN cols2, order)
        removed_cols == Iterate(DOMAIN cols2 \ DOMAIN cols1, order)
        common_cols == Iterate(DOMAIN cols1 \cap DOMAIN cols2, order)
        changed == SelectSeq(common_cols,
                             LAMBDA c : NeedsModify(cols1[c], cols2[c]))
    IN ModificationPhases(
         [i \in 1..Len(new_cols) |->
            AddColumnStmt(table_name, StatementColumn(cols1, cols2, new_cols[i]))],
         [i \in 1..Len(removed_cols) |->
            DropColumnStmt(table_name, removed_cols[i])],
         [i \in 1..Len(changed) |->
            ModifyColumnStmt(table_name,
                             StatementColumn(cols1, cols2, changed[i]))])

-----------------------------------------------------------------------------
(* generate_structure_sql and generate_data_sql *)

\* databases.ini: database1name, database2name, database1ip, database1user
DB1_NAME == "src_db"
DB2_NAME == "tgt_db"
DB1_HOST == "10.0.0.1"
DB1_USER == "sync"

\* datetime.now().strftime(...) at the k-th second of the run
Timestamp(k) == "2025-01-01 00:00:0" \o ToString(k)

Timestamps == 1..NumTimestamps

NoSelections ==
    [structure_only |-> << >>, structure_and_data |-> << >>,
     skip |-> << >>, drop_tables |-> << >>]

StructureHeader(ts) ==
    << "-- Structure Synchronization Script",
       "-- Generated by: MariaDB Advanced Database Synchronizer",
       "-- Author: João Cortez (jbcortezf@gmail.com)",
       "-- GitHub: https://github.com/jbcortezf/adjust-mariadb",
       "-- Generated on: " \o Timestamp(ts),
       "-- Source: " \o DB1_NAME \o " → Target: " \o DB2_NAME,
       "",
       "USE " \o BQ \o DB2_NAME \o BQ \o ";",
       "SET FOREIGN_KEY_CHECKS = 0;",
       "" >>

DropTableStmt(table) == "DROP TABLE IF EXISTS " \o BQ \o table \o BQ \o ";"

\* the block of the loop over selections.drop_tables
RECURSIVE DropBlocks(_)
DropBlocks(tables) ==
    IF tables = << >> THEN << >>
    ELSE << "-- Removing table " \o Head(tables), DropTableStmt(Head(tables)), "" >>
         \o DropBlocks(Tail(tables))

\* a CREATE statement regenerated from the table name
CreateTableStmt_Regenerated(s1, table) ==
    "CREATE TABLE " \o BQ \o table \o BQ \o " ();"

\* the statement of a table that is not in the target schema
CreateTableStmt(s1, table) == s1.tables[table].create_statement \o ";"

\* the block of the loop over tables_to_create
RECURSIVE CreateBlocks(_, _, _, _)
CreateBlocks(tables, s1, s2, order) ==
    IF tables = << >> THEN << >>
    ELSE LET table == Head(tables)
         IN (IF table \notin DOMAIN s2.tables
             THEN << "-- Creating table " \o table, CreateTableStmt(s1, table), "" >>
             ELSE << "-- Modifying table structure " \o table >>
                  \o generate_table_modifications(table, s1, s2, order)
                  \o << "" >>)
            \o CreateBlocks(Tail(tables), s1, s2, order)

\* the create/modify loop before the drop loop
StructureBody_CreatesFirst(drops, creates) == creates \o drops

\* the order of the drop loop and the create/modify loop in the list
StructureBody(drops, creates) == drops \o creates

generate_structure_sql(selection, s1, s2, ts, order) ==
    LET tables_to_create ==
            SelectSeq(selection.structure_only \o selection.structure_and_data,
                      LAMBDA t : t \in DOMAIN s1.tables)
    IN StructureHeader(ts)
       \o StructureBody(DropBlocks(selection.drop_tables),
                        CreateBlocks(tables_to_create, s1, s2, order))
       \o << "SET FOREIGN_KEY_CHECKS = 1;" >>

\* format(n, ",") for 0 <= n
RECURSIVE Thousands(_)
Thousands(n) ==
    IF n < 1000 THEN ToString(n)
    ELSE LET r == n % 1000
         IN Thousands(n \div 1000) \o ","
            \o (IF r < 10 THEN "00" ELSE IF r < 100 THEN "0" ELSE "") \o ToString(r)

\* "`, `".join(names)
RECURSIVE JoinColumns(_)
JoinColumns(rows) ==
    IF rows = << >> THEN ""
    ELSE IF Len(rows) = 1 THEN rows[1].COLUMN_NAME
    ELSE rows[1].COLUMN_NAME \o BQ \o ", " \o BQ \o JoinColumns(Tail(rows))

\* the header without the statement that disables the checks
DataHeader_NoDisable(ts) ==
    << "-- Data Synchronization Script",
       "-- Generated on: " \o Timestamp(ts),
       "",
       "USE " \o BQ \o DB2_NAME \o BQ \o ";",
       "" >>

DataHeader(ts) ==
    << "-- Data Synchronization Script",
       "-- Generated by: MariaDB Advanced Database Synchronizer",
       "-- Author: João Cortez (jbcortezf@gmail.com)",
       "-- GitHub: https://github.com/jbcortezf/adjust-mariadb",
       "-- Generated on: " \o Timestamp(ts),
       "",
       "USE " \o BQ \o DB2_NAME \o BQ \o ";",
       "SET FOREIGN_KEY_CHECKS = 0;",
       "" >>

TruncateStmt(table) == "TRUNCATE TABLE " \o BQ \o table \o BQ \o ";"

\* the block of one table of selections.structure_and_data
DataBlock(table, s1) ==
    LET rows_count == s1.tables[table].rows
    IN << "-- Synchronizing data for table " \o table \o " ("
          \o Thousands(rows_count) \o " records)",
          TruncateStmt(table) >>
       \o (IF rows_count > 0
           THEN << "INSERT INTO " \o BQ \o table \o BQ \o " (" \o BQ
                   \o JoinColumns(GetCols(s1, table)) \o BQ \o ") VALUES",
                   "-- WARNING: Data for table " \o table
                   \o " must be exported separately",
                   "-- due to large volume (" \o Thousands(rows_count)
                   \o " records)",
                   "-- Use: mysqldump -h " \o DB1_HOST \o " -u " \o DB1_USER
                   \o " -p " \o DB1_NAME \o " " \o table \o " --no-create-info" >>
           ELSE << >>)
       \o << "" >>

\* the blocks in the reverse of the selection order
RECURSIVE DataBlocks_Reversed(_, _)
DataBlocks_Reversed(tables, s1) ==
    IF tables = << >> THEN << >>
    ELSE DataBlocks_Reversed(Tail(tables), s1)
         \o (IF Head(tables) \in DOMAIN s1.tables
             THEN DataBlock(Head(tables), s1) ELSE << >>)

RECURSIVE DataBlocks(_, _)
DataBlocks(tables, s1) ==
    IF tables = << >> THEN << >>
    ELSE (IF Head(tables) \in DOMAIN s1.tables
          THEN DataBlock(Head(tables), s1) ELSE << >>)
         \o DataBlocks(Tail(tables), s1)

generate_data_sql(selection, s1, ts) ==
    IF selection.structure_and_data = << >> THEN << >>
    ELSE DataHeader(ts)
         \o DataBlocks(selection.structure_and_data, s1)
         \o << "SET FOREIGN_KEY_CHECKS = 1;" >>

-----------------------------------------------------------------------------
(* main: a run of the program *)

\* no file written: files holds the base filename and the lines of the
\* _structure.sql and of the _data.sql file
NoFiles == [base |-> "", structure |-> << >>, data |-> << >>]

Init ==
    /\ schema1 = EmptySchema
    /\ schema2 = EmptySchema
    /\ differences = NoDifferences
    /\ summary = << >>
    /\ shown = NoShown
    /\ selections = NoSelections
    /\ sel = 0
    /\ structure_sql = << >>
    /\ structure_prev = << >>
    /\ catalogs = << >>
    /\ hash_order = << >>
    /\ data_sql = << >>
    /\ pc = "start"
    /\ choice = ""
    /\ files = NoFiles
    /\ exec_log = << >>
    /\ exec_i = 0
    /\ sync_result = "none"
    /\ apply_changes = ""

\* schema1 = syncer.get_database_schema(syncer.db1_conn)
GetSchema1 ==
    /\ UNCHANGED apply_changes
    /\ pc = "start"
    /\ \E db \in Databases :
          \E fail \in FailPoints(db) : schema1' = get_database_schema(db, fail)
    /\ pc' = "schema1"
    /\ UNCHANGED <<choice, files, exec_log, exec_i, sync_result>>
    /\ UNCHANGED <<schema2, differences, summary, shown, selections,
                   sel, structure_sql, structure_prev, catalogs, hash_order, data_sql>>

\* schema2 = syncer.get_database_schema(syncer.db2_conn)
GetSchema2 ==
    /\ UNCHANGED apply_changes
    /\ pc = "schema1"
    /\ \E db \in Databases :
          \E fail \in FailPoints(db) : schema2' = get_database_schema(db, fail)
    /\ pc' = "schema2"
    /\ UNCHANGED <<choice, files, exec_log, exec_i, sync_result>>
    /\ UNCHANGED <<schema1, differences, summary, shown, selections,
                   sel, structure_sql, structure_prev, catalogs, hash_order, data_sql>>

\* differences = syncer.analyze_differences(schema1, schema2, ...)
Analyze ==
    /\ UNCHANGED apply_changes
    /\ pc = "schema2"
    /\ differences' = analyze_differences(schema1, schema2)
    /\ pc' = "analyzed"
    /\ UNCHANGED <<choice, files, exec_log, exec_i, sync_result>>
    /\ UNCHANGED <<schema1, schema2, summary, shown, selections,
                   sel, structure_sql, structure_prev, catalogs, hash_order, data_sql>>

total_changes(d) ==
    Len(d.new_tables) + Len(d.modified_tables) + Len(d.removed_tables)

\* syncer.show_analysis_summary(differences, schema1, schema2), then the
\* return of main when there is nothing to synchronize
ShowAnalysisSummary ==
    /\ UNCHANGED apply_changes
    /\ pc = "analyzed"
    /\ summary' = [t \in Range(differences.modified_tables) |->
                      show_table_differences(t, schema1, schema2)]
    /\ schema1' = TouchCols(schema1, Range(differences.modified_tables))
    /\ schema2' = TouchCols(schema2, Range(differences.modified_tables))
    /\ pc' = IF total_changes(differences) = 0 THEN "done" ELSE "proceed"
    /\ UNCHANGED <<choice, files, exec_log, exec_i, sync_result>>
    /\ UNCHANGED <<differences, shown, selections, sel,
                   structure_sql, structure_prev, catalogs, hash_order, data_sql>>

\* the tables interactive_selection asks about, in the order it asks
Prompts(d) ==
    [i \in 1..Len(d.new_tables) |-> [phase |-> "new", table |-> d.new_tables[i]]]
    \o [i \in 1..Len(d.modified_tables) |->
          [phase |-> "modified", table |-> d.modified_tables[i]]]
    \o [i \in 1..Len(d.removed_tables) |->
          [phase |-> "removed", table |-> d.removed_tables[i]]]

\* the schemas and the report after interactive_selection reached prompt k:
\* a new or modified table is shown in detail before its prompt
ShowFor(k, s1, s2) ==
    LET p == Prompts(differences)[k]
    IN IF p.phase = "removed"
       THEN [s1 |-> s1, s2 |-> s2, shown |-> shown]
       ELSE [s1 |-> TouchCols(s1, {p.table}),
             s2 |-> IF p.phase = "new" THEN s2 ELSE TouchCols(s2, {p.table}),
             shown |-> show_detailed_table_differences(
                           p.table, s1, s2, p.phase = "new")]

\* "Proceed with interactive selection? (y/n)" answered yes:
\* interactive_selection starts and reaches its first prompt
ProceedYes ==
    /\ UNCHANGED apply_changes
    /\ pc = "proceed"
    /\ LET r == ShowFor(1, schema1, schema2)
       IN /\ schema1' = r.s1
          /\ schema2' = r.s2
          /\ shown' = r.shown
    /\ selections' = NoSelections
    /\ sel' = 1
    /\ pc' = "select"
    /\ UNCHANGED <<choice, files, exec_log, exec_i, sync_result>>
    /\ UNCHANGED <<differences, summary, structure_sql,
                   structure_prev, catalogs, hash_order, data_sql>>

\* any other answer: "Operation cancelled."
ProceedNo ==
    /\ UNCHANGED apply_changes
    /\ pc = "proceed"
    /\ pc' = "done"
    /\ UNCHANGED <<choice, files, exec_log, exec_i, sync_result>>
    /\ UNCHANGED <<schema1, schema2, differences, summary, shown,
                   selections, sel, structure_sql, structure_prev, catalogs, hash_order, data_sql>>

\* the answers a prompt accepts for its phase after strip().lower(), and "?"
\* for any other input
Answers(phase) ==
    IF phase = "removed" THEN {"y", "yes", "n", "no", "q", "?"}
    ELSE {"1", "2", "s", "d", "q", "?"}

\* answer "2" recorded under structure_only as well
Selected_DataTwice(selection, table, answer) ==
    CASE answer = "1" ->
           [selection EXCEPT !.structure_only = Append(@, table)]
      [] answer = "2" ->
           [selection EXCEPT !.structure_only = Append(@, table),
                             !.structure_and_data = Append(@, table)]
      [] answer = "s" -> [selection EXCEPT !.skip = Append(@, table)]
      [] answer \in {"y", "yes"} ->
           [selection EXCEPT !.drop_tables = Append(@, table)]
      [] OTHER -> selection

\* selections after the answer to the prompt of table
Selected(selection, table, answer) ==
    CASE answer = "1" ->
           [selection EXCEPT !.structure_only = Append(@, table)]
      [] answer = "2" ->
           [selection EXCEPT !.structure_and_data = Append(@, table)]
      [] answer = "s" -> [selection EXCEPT !.skip = Append(@, table)]
      [] answer \in {"y", "yes"} ->
           [selection EXCEPT !.drop_tables = Append(@, table)]
      [] OTHER -> selection

\* one answer at a prompt that settles the table: the next prompt, or the
\* return of interactive_selection
Choose ==
    /\ UNCHANGED apply_changes
    /\ pc = "select"
    /\ LET p == Prompts(differences)[sel]
       IN \E answer \in Answers(p.phase) \ {"d", "q", "?"} :
            /\ choice' = answer
            /\ selections' = Selected(selections, p.table, answer)
            /\ IF sel < Len(Prompts(differences))
               THEN LET r == ShowFor(sel + 1, schema1, schema2)
                    IN /\ sel' = sel + 1
                       /\ schema1' = r.s1
                       /\ schema2' = r.s2
                       /\ shown' = r.shown
                       /\ pc' = "select"
               ELSE /\ sel' = 0
                    /\ pc' = "selected"
                    /\ UNCHANGED <<schema1, schema2, shown>>
    /\ UNCHANGED execVars
    /\ UNCHANGED <<differences, summary, structure_sql,
                   structure_prev, catalogs, hash_order, data_sql>>

\* "d": the details are shown again; any other input: "Invalid choice";
\* the prompt is asked again
AskAgain ==
    /\ UNCHANGED apply_changes
    /\ pc = "select"
    /\ LET p == Prompts(differences)[sel]
       IN \E answer \in Answers(p.phase) \cap {"d", "?"} :
            /\ choice' = answer
            /\ shown' = IF answer = "d"
                        THEN show_detailed_table_differences(
                                 p.table, schema1, schema2, p.phase = "new")
                        ELSE shown
    /\ UNCHANGED execVars
    /\ UNCHANGED <<schema1, schema2, differences, summary,
                   selections, sel, structure_sql, structure_prev, catalogs, hash_order, data_sql, pc>>

\* "q" leaving the loop of the prompt only: the choices made so far are kept
\* and main goes on
Quit_KeepsChoices ==
    /\ UNCHANGED apply_changes
    /\ pc = "select"
    /\ choice' = "q"
    /\ sel' = 0
    /\ pc' = "selected"
    /\ UNCHANGED execVars
    /\ UNCHANGED <<schema1, schema2, differences, summary, shown, selections,
                   structure_sql, structure_prev, catalogs, hash_order, data_sql>>

\* "q": interactive_selection returns {} and main returns
Quit ==
    /\ UNCHANGED apply_changes
    /\ pc = "select"
    /\ choice' = "q"
    /\ selections' = << >>
    /\ sel' = 0
    /\ pc' = "done"
    /\ UNCHANGED execVars
    /\ UNCHANGED <<schema1, schema2, differences, summary, shown,
                   structure_sql, structure_prev, catalogs, hash_order, data_sql>>

\* the tables whose columns entry generate_structure_sql evaluates
StructureTouched(selection, s1, s2) ==
    {t \in Range(selection.structure_only \o selection.structure_and_data) :
        t \in DOMAIN s1.tables /\ t \in DOMAIN s2.tables}

\* syncer.structure_sql = syncer.generate_structure_sql(...)
GenerateStructure ==
    /\ UNCHANGED apply_changes
    /\ pc = "selected"
    /\ \E ts \in Timestamps, order \in IterationOrders :
          structure_sql' =
              generate_structure_sql(selections, schema1, schema2, ts, order)
    /\ schema1' = TouchCols(schema1, StructureTouched(selections, schema1, schema2))
    /\ schema2' = TouchCols(schema2, StructureTouched(selections, schema1, schema2))
    /\ pc' = "structure"
    /\ UNCHANGED <<choice, files, exec_log, exec_i, sync_result>>
    /\ UNCHANGED <<differences, summary, shown, selections, sel,
                   structure_prev, catalogs, hash_order, data_sql>>

\* the tables whose columns entry generate_data_sql evaluates
DataTouched(selection, s1) ==
    {t \in Range(selection.structure_and_data) : t \in DOMAIN s1.tables}

\* syncer.data_sql = syncer.generate_data_sql(...)
GenerateData ==
    /\ UNCHANGED apply_changes
    /\ pc = "structure"
    /\ \E ts \in Timestamps : data_sql' = generate_data_sql(selections, schema1, ts)
    /\ schema1' = TouchCols(schema1, DataTouched(selections, schema1))
    /\ pc' = "generated"
    /\ UNCHANGED <<choice, files, exec_log, exec_i, sync_result>>
    /\ UNCHANGED <<schema2, differences, summary, shown, selections,
                   sel, structure_sql, structure_prev, catalogs, hash_order>>

\* what is typed at "Base filename [sync_database]: "
BaseNames == {"", "out"}

\* the open() of save_sql_files that raises: none, that of the structure
\* file, or that of the data file
OpenFailures == {"none", "structure", "data"}

\* save_sql_files(base_filename): a list is written, one statement a line,
\* when it is not empty; an open() that raises ends the call, the file
\* opened before it stays written
save_sql_files(base_filename, structure, data, fail) ==
    LET raised_structure == structure # << >> /\ fail = "structure"
        raised_data == ~raised_structure /\ data # << >> /\ fail = "data"
        written_structure == IF raised_structure THEN << >> ELSE structure
        written_data == IF raised_structure \/ raised_data THEN << >> ELSE data
    IN [files |->
            IF written_structure = << >> /\ written_data = << >>
            THEN NoFiles
            ELSE [base |-> base_filename, structure |-> written_structure,
                  data |-> written_data],
        raised |-> raised_structure \/ raised_data]

\* "Save SQL files? (y/n) [y]" answered "", "y" or "yes": the base filename
\* is asked for
SaveYes ==
    /\ pc = "generated"
    /\ pc' = "filename"
    /\ UNCHANGED <<schema1, schema2, differences, summary, shown, selections,
                   sel, structure_sql, structure_prev, catalogs, hash_order, data_sql,
                   choice, files, exec_log, exec_i, sync_result, apply_changes>>

\* the base filename is typed (empty: sync_database) and save_sql_files
\* runs; an open() that raises ends main in its except clause
SaveFiles ==
    /\ pc = "filename"
    /\ \E filename \in BaseNames, fail \in OpenFailures :
          LET base_filename == IF filename = "" THEN "sync_database"
                               ELSE filename
              r == save_sql_files(base_filename, structure_sql, data_sql, fail)
          IN /\ files' = r.files
             /\ pc' = IF r.raised THEN "done" ELSE "apply"
    /\ UNCHANGED <<schema1, schema2, differences, summary, shown, selections,
                   sel, structure_sql, structure_prev, catalogs, hash_order, data_sql,
                   choice, exec_log, exec_i, sync_result, apply_changes>>

\* any other answer: nothing is written
SaveNo ==
    /\ UNCHANGED apply_changes
    /\ pc = "generated"
    /\ pc' = "apply"
    /\ UNCHANGED <<schema1, schema2, differences, summary, shown, selections,
                   sel, structure_sql, structure_prev, catalogs, hash_order, data_sql,
                   choice, files, exec_log, exec_i, sync_result>>

\* the answers to a y/n prompt after strip().lower(): the two that mean yes,
\* and others
YesAnswers == {"y", "yes"}
OtherAnswers == {"", "n", "?"}

\* "Apply changes to database ...? (y/n) [n]" answered "y" or "yes":
\* main calls execute_sync
ApplyYes ==
    /\ pc = "apply"
    /\ \E answer \in YesAnswers : apply_changes' = answer
    /\ pc' = "execute_sync"
    /\ UNCHANGED <<schema1, schema2, differences, summary, shown, selections,
                   sel, structure_sql, structure_prev, catalogs, hash_order, data_sql,
                   choice, files, exec_log, exec_i, sync_result>>

\* any other answer: "Changes not applied."
ApplyNo ==
    /\ pc = "apply"
    /\ \E answer \in OtherAnswers : apply_changes' = answer
    /\ pc' = "done"
    /\ UNCHANGED <<schema1, schema2, differences, summary, shown, selections,
                   sel, structure_sql, structure_prev, catalogs, hash_order, data_sql,
                   choice, files, exec_log, exec_i, sync_result>>

Next ==
    \/ GetSchema1
    \/ GetSchema2
    \/ Analyze
    \/ ShowAnalysisSummary
    \/ ProceedYes
    \/ ProceedNo
    \/ Choose
    \/ AskAgain
    \/ Quit
    \/ GenerateStructure
    \/ GenerateData

Spec == Init /\ [][Next]_vars

-----------------------------------------------------------------------------
(* The methods called directly: both schemas are extracted with no failing  *)
(* query and classified, then generate_data_sql and, twice,                 *)
(* generate_structure_sql are handed a selection of the caller, whatever    *)
(* the classification allows                                                *)

SeqsUpTo(S, n) == UNION {[1..k -> S] : k \in 0..n}

\* the selections of at most MaxApiEntries entries (skip, which no generator
\* reads, stays empty)
ApiSelections ==
    {x \in [structure_only : SeqsUpTo(Range(TableNames), MaxApiEntries),
            structure_and_data : SeqsUpTo(Range(TableNames), MaxApiEntries),
            skip : {<< >>},
            drop_tables : SeqsUpTo(Range(TableNames), MaxApiEntries)] :
        Len(x.structure_only) + Len(x.structure_and_data) + Len(x.drop_tables)
            <= MaxApiEntries}

InitApi ==
    /\ schema1 = EmptySchema
    /\ schema2 = EmptySchema
    /\ differences = NoDifferences
    /\ summary = << >>
    /\ shown = NoShown
    /\ selections = NoSelections
    /\ sel = 0
    /\ structure_sql = << >>
    /\ structure_prev = << >>
    /\ catalogs = << >>
    /\ hash_order = << >>
    /\ data_sql = << >>
    /\ pc = "api_start"
    /\ choice = ""
    /\ files = NoFiles
    /\ exec_log = << >>
    /\ exec_i = 0
    /\ sync_result = "none"
    /\ apply_changes = ""

\* get_database_schema on both connections, analyze_differences
ApiAnalyze ==
    /\ UNCHANGED apply_changes
    /\ pc = "api_start"
    /\ \E db1 \in RunDatabases : schema1' = get_database_schema(db1, NoFail)
    /\ \E db2 \in RunDatabases : schema2' = get_database_schema(db2, NoFail)
    /\ differences' = analyze_differences(schema1', schema2')
    /\ pc' = "api_analyzed"
    /\ UNCHANGED <<choice, files, exec_log, exec_i, sync_result>>
    /\ UNCHANGED <<summary, shown, selections, sel, structure_sql,
                   structure_prev, catalogs, hash_order, data_sql>>

\* generate_data_sql(selection, schema1, ...) for a selection of the caller
ApiGenerateData ==
    /\ UNCHANGED apply_changes
    /\ pc = "api_analyzed"
    /\ \E x \in ApiSelections, ts \in Timestamps :
          /\ selections' = x
          /\ data_sql' = generate_data_sql(x, schema1, ts)
          /\ schema1' = TouchCols(schema1, DataTouched(x, schema1))
    /\ pc' = "api_data"
    /\ UNCHANGED <<choice, files, exec_log, exec_i, sync_result>>
    /\ UNCHANGED <<schema2, differences, summary, shown, sel,
                   structure_sql, structure_prev, catalogs, hash_order>>

\* generate_structure_sql(selections, schema1, schema2, ...), the first and
\* the second time
ApiGenerateStructure ==
    /\ UNCHANGED apply_changes
    /\ pc \in {"api_data", "api_structure"}
    /\ \E ts \in Timestamps, order \in IterationOrders :
          /\ pc = "api_structure" => order = hash_order
          /\ hash_order' = order
          /\ structure_sql' =
                generate_structure_sql(selections, schema1, schema2, ts, order)
    /\ structure_prev' = structure_sql
    /\ schema1' = TouchCols(schema1, StructureTouched(selections, schema1, schema2))
    /\ schema2' = TouchCols(schema2, StructureTouched(selections, schema1, schema2))
    /\ pc' = IF pc = "api_data" THEN "api_structure" ELSE "api_again"
    /\ UNCHANGED catalogs
    /\ UNCHANGED <<choice, files, exec_log, exec_i, sync_result>>
    /\ UNCHANGED <<differences, summary, shown, selections, sel,
                   data_sql>>

NextApi ==
    \/ ApiAnalyze
    \/ ApiGenerateData
    \/ ApiGenerateStructure

SpecApi == InitApi /\ [][NextApi]_vars

-----------------------------------------------------------------------------
(* execute_sync, one statement a step, and the whole run of main over      *)
(* databases whose extraction raises nothing                               *)

\* the loop running over both generated lists
SyncStatements_WithData(structure, data) == structure \o data

\* for i, statement in enumerate(self.structure_sql): the list execute_sync
\* runs over
SyncStatements(structure, data) == structure

\* statement.strip() and not statement.strip().startswith('--')
Executable(statement) ==
    Strip(statement) # "" /\ ~StartsWith(Strip(statement), "--")

\* a request to the target connection and whether it succeeded
Executed(statement, ok) == [op |-> "execute", statement |-> statement, ok |-> ok]
Committed(ok) == [op |-> "commit", statement |-> "", ok |-> ok]
RolledBack == [op |-> "rollback", statement |-> "", ok |-> TRUE]

\* the statements the target database rejected so far
Failures(log) == {k \in 1..Len(log) : log[k].op = "execute" /\ ~log[k].ok}

\* the position of the loop after the statement at index i was rejected
AfterFailure_Stop(i, n) == n + 1

\* except Exception as e: print(...), and the loop goes on
AfterFailure(i, n) == i + 1

\* execute_sync is entered: cursor = self.db2_conn.cursor(); with an empty
\* structure_sql it returns True at once
ExecEnter ==
    /\ UNCHANGED apply_changes
    /\ pc = "execute_sync"
    /\ IF SyncStatements(structure_sql, data_sql) = << >>
       THEN /\ sync_result' = "True"
            /\ pc' = "done"
            /\ UNCHANGED exec_i
       ELSE /\ exec_i' = 1
            /\ pc' = "exec_loop"
            /\ UNCHANGED sync_result
    /\ UNCHANGED <<schema1, schema2, differences, summary, shown, selections,
                   sel, structure_sql, structure_prev, catalogs, hash_order, data_sql,
                   choice, files, exec_log>>

\* one turn of the loop over self.structure_sql
ExecStatement ==
    /\ UNCHANGED apply_changes
    /\ pc = "exec_loop"
    /\ exec_i <= Len(SyncStatements(structure_sql, data_sql))
    /\ LET statement == SyncStatements(structure_sql, data_sql)[exec_i]
       IN IF Executable(statement)
          THEN \E ok \in BOOLEAN :
                  /\ ~ok => Cardinality(Failures(exec_log)) < MaxExecFailures
                  /\ exec_log' = Append(exec_log, Executed(statement, ok))
                  /\ exec_i' = IF ok THEN exec_i + 1
                               ELSE AfterFailure(exec_i,
                                      Len(SyncStatements(structure_sql, data_sql)))
          ELSE /\ exec_i' = exec_i + 1
               /\ UNCHANGED exec_log
    /\ UNCHANGED <<schema1, schema2, differences, summary, shown, selections,
                   sel, structure_sql, structure_prev, catalogs, hash_order, data_sql,
                   choice, files, sync_result, pc>>

\* self.db2_conn.commit() after the loop and the return; a commit that
\* raises is followed by rollback() and return False
ExecCommit ==
    /\ UNCHANGED apply_changes
    /\ pc = "exec_loop"
    /\ exec_i > Len(SyncStatements(structure_sql, data_sql))
    /\ \E ok \in BOOLEAN :
          /\ exec_log' = IF ok THEN Append(exec_log, Committed(TRUE))
                         ELSE exec_log \o << Committed(FALSE), RolledBack >>
          /\ sync_result' = IF ok THEN "True" ELSE "False"
    /\ pc' = "done"
    /\ UNCHANGED <<schema1, schema2, differences, summary, shown, selections,
                   sel, structure_sql, structure_prev, catalogs, hash_order, data_sql,
                   choice, files, exec_i>>

\* both extractions, no query raising
RunGetSchemas ==
    /\ UNCHANGED apply_changes
    /\ pc = "start"
    /\ \E db1 \in RunDatabases : schema1' = get_database_schema(db1, NoFail)
    /\ \E db2 \in RunDatabases : schema2' = get_database_schema(db2, NoFail)
    /\ pc' = "schema2"
    /\ UNCHANGED <<differences, summary, shown, selections, sel, structure_sql,
                   structure_prev, catalogs, hash_order, data_sql, choice, files,
                   exec_log, exec_i, sync_result>>

NextRun ==
    \/ RunGetSchemas
    \/ Analyze
    \/ ShowAnalysisSummary
    \/ ProceedYes
    \/ ProceedNo
    \/ Choose
    \/ AskAgain
    \/ Quit
    \/ GenerateStructure
    \/ GenerateData
    \/ SaveYes
    \/ SaveFiles
    \/ SaveNo
    \/ ApplyYes
    \/ ApplyNo
    \/ ExecEnter
    \/ ExecStatement
    \/ ExecCommit

SpecRun == Init /\ [][NextRun]_vars

-----------------------------------------------------------------------------
(* The methods of the review called directly: both schemas are extracted,  *)
(* any query of the extraction may raise, and the schemas are classified,  *)
(* reported on and classified again                                        *)

\* the definitions table a takes in the review: with and without indexes,
\* two of them with the index idx_xy over different column lists, and two
\* whose column x has no default and the default 'None'
ReviewDefs == {1, 5, 7, 10, 11}

ReviewDatabases ==
    UNION {
        { [t \in T |-> CatalogTable(t, IF t = "a" THEN i ELSE 1)] :
            i \in ReviewDefs }
        : T \in SUBSET Range(TableNames) }

\* one call of get_database_schema: the tables its catalog query listed,
\* the table at which a query raised ("" when none did), the schema returned
Extraction(db, fail) ==
    LET order == SelectSeq(TableNames, LAMBDA t : t \in DOMAIN db)
    IN [listed |-> IF fail.stage = "catalog" THEN {} ELSE DOMAIN db,
        failed |-> IF fail.at = 0 THEN "" ELSE order[fail.at],
        returned |-> get_database_schema(db, fail)]

\* get_database_schema on both connections
ReviewExtract ==
    /\ UNCHANGED apply_changes
    /\ pc = "api_start"
    /\ \E db1 \in ReviewDatabases, db2 \in ReviewDatabases :
          \E fail1 \in FailPoints(db1), fail2 \in FailPoints(db2) :
             /\ schema1' = get_database_schema(db1, fail1)
             /\ schema2' = get_database_schema(db2, fail2)
             /\ catalogs' = << Extraction(db1, fail1), Extraction(db2, fail2) >>
    /\ pc' = "review_extracted"
    /\ UNCHANGED <<choice, files, exec_log, exec_i, sync_result>>
    /\ UNCHANGED <<differences, summary, shown, selections, sel,
                   structure_sql, structure_prev, hash_order, data_sql>>

\* analyze_differences(schema1, schema2, ...), the first and the second time
ReviewAnalyze ==
    /\ UNCHANGED apply_changes
    /\ pc \in {"review_extracted", "review_shown", "review_altered"}
    /\ differences' = analyze_differences(schema1, schema2)
    /\ pc' = IF pc = "review_extracted" THEN "review_analyzed"
             ELSE "review_again"
    /\ UNCHANGED <<choice, files, exec_log, exec_i, sync_result>>
    /\ UNCHANGED <<schema1, schema2, summary, shown, selections, sel,
                   structure_sql, structure_prev, catalogs, hash_order,
                   data_sql>>

\* show_analysis_summary(differences, schema1, schema2)
ReviewSummary ==
    /\ UNCHANGED apply_changes
    /\ pc = "review_analyzed"
    /\ summary' = [t \in Range(differences.modified_tables) |->
                      show_table_differences(t, schema1, schema2)]
    /\ schema1' = TouchCols(schema1, Range(differences.modified_tables))
    /\ schema2' = TouchCols(schema2, Range(differences.modified_tables))
    /\ pc' = "review_shown"
    /\ UNCHANGED <<choice, files, exec_log, exec_i, sync_result>>
    /\ UNCHANGED <<differences, shown, selections, sel, structure_sql,
                   structure_prev, catalogs, hash_order, data_sql>>

\* show_detailed_table_differences for a new or a modified table
ReviewDetailed ==
    /\ UNCHANGED apply_changes
    /\ pc = "review_analyzed"
    /\ \E t \in Range(differences.new_tables)
                 \cup Range(differences.modified_tables) :
          LET is_new_table == t \in Range(differences.new_tables)
          IN /\ shown' = show_detailed_table_differences(
                             t, schema1, schema2, is_new_table)
             /\ schema1' = TouchCols(schema1, {t})
             /\ schema2' = IF is_new_table THEN schema2
                           ELSE TouchCols(schema2, {t})
    /\ pc' = "review_shown"
    /\ UNCHANGED <<choice, files, exec_log, exec_i, sync_result>>
    /\ UNCHANGED <<differences, summary, selections, sel, structure_sql,
                   structure_prev, catalogs, hash_order, data_sql>>

\* generate_table_modifications(t, schema1, schema2) for a table of both
\* schemas: the table is kept in selections.structure_only, the statements
\* returned in structure_sql
ReviewModifications ==
    /\ UNCHANGED apply_changes
    /\ pc = "review_analyzed"
    /\ \E t \in Range(differences.identical_tables)
                 \cup Range(differences.modified_tables) :
          \E order \in IterationOrders :
             /\ selections' = [NoSelections EXCEPT !.structure_only = << t >>]
             /\ structure_sql' =
                   generate_table_modifications(t, schema1, schema2, order)
             /\ schema1' = TouchCols(schema1, {t})
             /\ schema2' = TouchCols(schema2, {t})
    /\ pc' = "review_altered"
    /\ UNCHANGED <<choice, files, exec_log, exec_i, sync_result>>
    /\ UNCHANGED <<differences, summary, shown, sel, structure_prev,
                   catalogs, hash_order, data_sql>>

NextReview ==
    \/ ReviewExtract
    \/ ReviewAnalyze
    \/ ReviewSummary
    \/ ReviewDetailed
    \/ ReviewModifications

SpecReview == InitApi /\ [][NextReview]_vars

-----------------------------------------------------------------------------
(* Reading a statement list *)

IsComment(s) == StartsWith(s, "--")
IsDropTable(s) == StartsWith(s, "DROP TABLE")
IsCreateTable(s) == StartsWith(s, "CREATE TABLE")
IsAlterTable(s) == StartsWith(s, "ALTER TABLE")

IsDropTableOf(s, t) == StartsWith(s, "DROP TABLE IF EXISTS " \o BQ \o t \o BQ)
IsCreateTableOf(s, t) == StartsWith(s, "CREATE TABLE " \o BQ \o t \o BQ)
IsAlterTableOf(s, t) == StartsWith(s, "ALTER TABLE " \o BQ \o t \o BQ \o " ")

AlterPrefix(t, kind, c) ==
    "ALTER TABLE " \o BQ \o t \o BQ \o " " \o kind \o " COLUMN " \o BQ \o c \o BQ

IsAlterOf(s, t, kind, c) ==
    \/ StartsWith(s, AlterPrefix(t, kind, c) \o " ")
    \/ s = AlterPrefix(t, kind, c) \o ";"

AlterKinds == <<"ADD", "DROP", "MODIFY">>

\* the column clause: type, NULL or NOT NULL, DEFAULT value when the column
\* has a default, extra when it has one, one blank between the parts
ClauseOf(col) ==
    col.COLUMN_TYPE
    \o (IF col.IS_NULLABLE = "YES" THEN " NULL" ELSE " NOT NULL")
    \o (IF col.COLUMN_DEFAULT = None THEN ""
        ELSE " DEFAULT " \o col.COLUMN_DEFAULT[1])
    \o (IF col.EXTRA = "" THEN "" ELSE " " \o col.EXTRA)

\* the same clause with the blank of an absent part kept
ClauseWithGaps(col) ==
    col.COLUMN_TYPE
    \o (IF col.IS_NULLABLE = "YES" THEN " NULL" ELSE " NOT NULL")
    \o " " \o (IF col.COLUMN_DEFAULT = None THEN ""
               ELSE "DEFAULT " \o col.COLUMN_DEFAULT[1])
    \o " " \o col.EXTRA

\* statement s is the kind statement of column col of table t, whatever the
\* blanks left where a part is absent
Carries(s, t, kind, col) ==
    \E v \in {ClauseOf(col), ClauseWithGaps(col)} :
        s = Strip(AlterPrefix(t, kind, col.COLUMN_NAME) \o " " \o v) \o ";"

Tables1 == DOMAIN schema1.tables
Tables2 == DOMAIN schema2.tables

HasColumns(t) == t \in DOMAIN schema1.columns /\ t \in DOMAIN schema2.columns

Cols1(t) == ColDict(GetCols(schema1, t))
Cols2(t) == ColDict(GetCols(schema2, t))

\* the rows of a column both sides have differ in one of the four fields,
\* the defaults read as strings
DefinitionsDiffer(c1, c2) ==
    <<c1.COLUMN_TYPE, c1.IS_NULLABLE, Str(c1.COLUMN_DEFAULT), c1.EXTRA>>
        # <<c2.COLUMN_TYPE, c2.IS_NULLABLE, Str(c2.COLUMN_DEFAULT), c2.EXTRA>>

ColumnsDiffer(t) ==
    \/ DOMAIN Cols1(t) # DOMAIN Cols2(t)
    \/ \E c \in DOMAIN Cols1(t) \cap DOMAIN Cols2(t) :
          DefinitionsDiffer(Cols1(t)[c], Cols2(t)[c])

Count(seq, x) == Cardinality({i \in 1..Len(seq) : seq[i] = x})

-----------------------------------------------------------------------------
(* Claims *)

\* C1: the four lists analyze_differences returns are pairwise disjoint and
\* together hold every table name of either schema exactly once (and no
\* other name).
C1_Partition ==
    pc = "analyzed" =>
        \A t \in Range(TableNames) :
            Count(differences.new_tables \o differences.removed_tables
                  \o differences.modified_tables \o differences.identical_tables, t)
            = IF t \in Tables1 \cup Tables2 THEN 1 ELSE 0

C1_Witness ==
    /\ pc = "analyzed"
    /\ differences.new_tables # << >>
    /\ differences.modified_tables # << >>

\* C2 as stated: for every schema A, analyze_differences(A, A) has empty
\* new_tables, removed_tables and modified_tables, and identical_tables
\* holds every table of A.
C2_Original ==
    (pc = "analyzed" /\ schema1 = schema2) =>
        /\ differences.new_tables = << >>
        /\ differences.removed_tables = << >>
        /\ differences.modified_tables = << >>
        /\ Range(differences.identical_tables) = Tables1

\* C2 amended: for every schema A that holds column metadata for each of its
\* tables, analyze_differences(A, A) has empty new_tables, removed_tables and
\* modified_tables, and identical_tables holds every table of A.
C2_Amended ==
    (/\ pc = "analyzed"
     /\ schema1 = schema2
     /\ Tables1 \subseteq DOMAIN schema1.columns) =>
        /\ differences.new_tables = << >>
        /\ differences.removed_tables = << >>
        /\ differences.modified_tables = << >>
        /\ Range(differences.identical_tables) = Tables1

C2_Witness ==
    /\ pc = "analyzed"
    /\ schema1 = schema2
    /\ Cardinality(Tables1) = 2
    /\ Tables1 \subseteq DOMAIN schema1.columns
    /\ Len(differences.identical_tables) = 2

\* C3 as stated: a table of both schemas is in modified_tables if and only if
\* the column-name sets differ or a shared column differs in type,
\* nullability, default (as strings) or extra; otherwise it is in
\* identical_tables, whatever its indexes and foreign keys.
C3_Original ==
    pc = "analyzed" =>
        \A t \in Tables1 \cap Tables2 :
            /\ t \in Range(differences.modified_tables) <=> ColumnsDiffer(t)
            /\ t \in Range(differences.identical_tables) <=> ~ColumnsDiffer(t)

\* C3 amended: the same, for a table of both schemas whose column metadata
\* was recorded on both sides.
C3_Amended ==
    pc = "analyzed" =>
        \A t \in Tables1 \cap Tables2 :
            HasColumns(t) =>
                /\ t \in Range(differences.modified_tables) <=> ColumnsDiffer(t)
                /\ t \in Range(differences.identical_tables) <=> ~ColumnsDiffer(t)

\* a table whose two sides differ in indexes and foreign keys only
C3_Witness ==
    /\ pc = "analyzed"
    /\ \E t \in Tables1 \cap Tables2 :
          /\ HasColumns(t)
          /\ t \in DOMAIN schema1.indexes /\ t \in DOMAIN schema2.indexes
          /\ t \in DOMAIN schema1.foreign_keys /\ t \in DOMAIN schema2.foreign_keys
          /\ schema1.columns[t] = schema2.columns[t]
          /\ schema1.indexes[t] # schema2.indexes[t]
          /\ schema1.foreign_keys[t] # schema2.foreign_keys[t]
          /\ t \in Range(differences.identical_tables)

\* the two sides of table t differ in the extra of column c and in nothing
\* else
OnlyExtraDiffers(t, c) ==
    /\ t \in Tables1 \cap Tables2
    /\ DOMAIN Cols1(t) = DOMAIN Cols2(t)
    /\ c \in DOMAIN Cols1(t)
    /\ Cols1(t)[c].EXTRA # Cols2(t)[c].EXTRA
    /\ [Cols1(t)[c] EXCEPT !.EXTRA = ""] = [Cols2(t)[c] EXCEPT !.EXTRA = ""]
    /\ \A d \in DOMAIN Cols1(t) \ {c} : Cols1(t)[d] = Cols2(t)[d]

\* C4: when the two sides of a table differ only in the extra of one column,
\* the table is classified modified and the column is among the changed
\* columns of every column report of the table: the one of
\* show_table_differences and the one of show_detailed_table_differences.
C4_ExtraOnlyReported ==
    pc \in {"proceed", "select"} =>
        \A t \in Range(TableNames), c \in Range(ColNames) :
            (t \in DOMAIN schema1.columns /\ t \in DOMAIN schema2.columns
             /\ OnlyExtraDiffers(t, c)) =>
                /\ t \in Range(differences.modified_tables)
                /\ c \in Range(summary[t].modified_cols)
                /\ shown.table = t =>
                      \E m \in shown.modified_cols : m[1] = c

\* C5: when drop_tables is not empty, every DROP TABLE statement of the
\* structure list comes before every CREATE TABLE and ALTER TABLE statement.
C5_DropsFirst ==
    (pc = "structure" /\ selections.drop_tables # << >>) =>
        \A i, j \in 1..Len(structure_sql) :
            (/\ IsDropTable(structure_sql[i])
             /\ IsCreateTable(structure_sql[j]) \/ IsAlterTable(structure_sql[j]))
            => i < j

\* a DROP TABLE statement and two ALTER TABLE statements in one list
C5_Witness ==
    /\ pc = "structure"
    /\ \E i, j, k \in 1..Len(structure_sql) :
          /\ IsDropTable(structure_sql[i])
          /\ j # k
          /\ IsAlterTable(structure_sql[j])
          /\ IsAlterTable(structure_sql[k])

\* the place of an ALTER statement of table t in the claimed order: phase
\* (ADD, DROP, MODIFY), then column name
AlterKey(s, t) ==
    CHOOSE k \in (1..Len(AlterKinds)) \X (1..Len(ColNames)) :
        IsAlterOf(s, t, AlterKinds[k[1]], ColNames[k[2]])

\* C6: the ALTER statements of a table come in the order: every ADD COLUMN
\* by column name, then every DROP COLUMN by column name, then every MODIFY
\* COLUMN by column name.
C6_SortedPhases ==
    pc = "structure" =>
        \A t \in Range(TableNames) :
            \A i, j \in 1..Len(structure_sql) :
                (/\ i < j
                 /\ IsAlterTableOf(structure_sql[i], t)
                 /\ IsAlterTableOf(structure_sql[j], t))
                => LET a == AlterKey(structure_sql[i], t)
                       b == AlterKey(structure_sql[j], t)
                   IN a[1] < b[1] \/ (a[1] = b[1] /\ a[2] < b[2])

\* the tables generate_structure_sql alters
Altered ==
    Range(selections.structure_only \o selections.structure_and_data)
    \cap Tables1 \cap Tables2

\* C7: every ADD COLUMN and MODIFY COLUMN statement carries type,
\* nullability, default and extra of the column as the source schema has it,
\* and each shared column whose definition differs between source and
\* target has its MODIFY COLUMN statement.
C7_SourceSide ==
    pc = "structure" =>
        \A t \in Altered :
            LET cols1 == Cols1(t)
                cols2 == Cols2(t)
            IN  /\ \A i \in 1..Len(structure_sql) :
                      IsAlterTableOf(structure_sql[i], t) =>
                          \A c \in Range(ColNames) :
                              /\ IsAlterOf(structure_sql[i], t, "ADD", c) =>
                                    /\ c \in DOMAIN cols1
                                    /\ Carries(structure_sql[i], t, "ADD", cols1[c])
                              /\ IsAlterOf(structure_sql[i], t, "MODIFY", c) =>
                                    /\ c \in DOMAIN cols1
                                    /\ Carries(structure_sql[i], t, "MODIFY", cols1[c])
                /\ \A c \in DOMAIN cols1 \cap DOMAIN cols2 :
                      DefinitionsDiffer(cols1[c], cols2[c]) =>
                          \E i \in 1..Len(structure_sql) :
                              IsAlterOf(structure_sql[i], t, "MODIFY", c)

\* an ADD COLUMN and a MODIFY COLUMN statement of one table, the modified
\* column differing between the two sides
C7_Witness ==
    /\ pc = "structure"
    /\ \E t \in Altered, i, j \in 1..Len(structure_sql), c, d \in Range(ColNames) :
          /\ IsAlterOf(structure_sql[i], t, "ADD", c)
          /\ IsAlterOf(structure_sql[j], t, "MODIFY", d)
          /\ Cols1(t)[d] # Cols2(t)[d]

\* the statements of the structure list that name table t
StatementsOf(t) ==
    {i \in 1..Len(structure_sql) :
        \/ IsDropTableOf(structure_sql[i], t)
        \/ IsCreateTableOf(structure_sql[i], t)
        \/ IsAlterTableOf(structure_sql[i], t)}

\* the tables selected for structure that the source schema has and the
\* target schema has not
Created ==
    (Range(selections.structure_only \o selections.structure_and_data)
     \cap Tables1) \ Tables2

\* C8: a table selected structure_only or structure_and_data that is in the
\* source and not in the target has exactly one statement in the structure
\* list, the CREATE statement text captured from the source, and no DROP or
\* ALTER statement.
C8_VerbatimCreate ==
    pc = "structure" =>
        \A t \in Created :
            /\ Cardinality(StatementsOf(t)) = 1
            /\ \A i \in StatementsOf(t) :
                  structure_sql[i] = schema1.tables[t].create_statement \o ";"

C8_Witness ==
    /\ pc = "structure"
    /\ \E t \in Created :
          /\ t \in Range(selections.structure_and_data)
          /\ StatementsOf(t) # {}
    /\ selections.drop_tables # << >>


\* C9: two generations of the structure list from the same selection and
\* the same schemas give the same statements in the same order.
C9_Deterministic ==
    pc = "api_again" => structure_sql = structure_prev

\* the statements of the data list that name table t
DataStatementsOf(t) ==
    {i \in 1..Len(data_sql) :
        \/ StartsWith(data_sql[i], "TRUNCATE TABLE " \o BQ \o t \o BQ)
        \/ StartsWith(data_sql[i], "INSERT INTO " \o BQ \o t \o BQ)}

\* C10: a selection outside the contract is ignored: a table selected for
\* drop that is not in removed_tables gets no DROP TABLE statement, and a
\* table selected structure_and_data that is neither in new_tables nor in
\* modified_tables gets no statement in the structure list and none in the
\* data list.
C10_InvalidIgnored ==
    pc = "api_structure" =>
        \A t \in Range(TableNames) :
            /\ (/\ t \in Range(selections.drop_tables)
                /\ t \notin Range(differences.removed_tables))
               => \A i \in 1..Len(structure_sql) :
                     ~IsDropTableOf(structure_sql[i], t)
            /\ (/\ t \in Range(selections.structure_and_data)
                /\ t \notin Range(differences.new_tables)
                /\ t \notin Range(differences.modified_tables))
               => /\ \A i \in 1..Len(structure_sql) :
                        /\ ~IsCreateTableOf(structure_sql[i], t)
                        /\ ~IsAlterTableOf(structure_sql[i], t)
                  /\ DataStatementsOf(t) = {}

\* statement s changes the target: DROP, CREATE, ALTER or TRUNCATE
IsChange(s) ==
    \/ IsDropTable(s)
    \/ IsCreateTable(s)
    \/ IsAlterTable(s)
    \/ StartsWith(s, "TRUNCATE TABLE")

\* list starts with h comment lines and a blank line, then the USE statement
\* of the target database, then the statement that disables the checks
HeaderEndsAt(list, h) ==
    /\ h >= 1
    /\ Len(list) >= h + 4
    /\ \A k \in 1..h : IsComment(list[k])
    /\ list[h + 1] = ""
    /\ list[h + 2] = "USE " \o BQ \o DB2_NAME \o BQ \o ";"
    /\ list[h + 3] = "SET FOREIGN_KEY_CHECKS = 0;"

Wrapped(list) ==
    \E h \in 1..Len(list) :
        /\ HeaderEndsAt(list, h)
        /\ list[Len(list)] = "SET FOREIGN_KEY_CHECKS = 1;"
        /\ \A k \in 1..Len(list) :
              IsChange(list[k]) => (h + 3 < k /\ k < Len(list))

\* C11: the structure list and the data list (when a data list is produced:
\* generate_data_sql returns an empty list when no table is selected for
\* data) start with the comment header, USE of the target and
\* SET FOREIGN_KEY_CHECKS = 0, and end with SET FOREIGN_KEY_CHECKS = 1, every
\* DROP, CREATE, ALTER and TRUNCATE statement lying between the two.
C11_Wrapped ==
    pc = "generated" =>
        /\ Wrapped(structure_sql)
        /\ data_sql # << >> => Wrapped(data_sql)

\* both lists with statements to wrap: a DROP and an ALTER, a TRUNCATE
C11_Witness ==
    /\ pc = "generated"
    /\ \E i, j \in 1..Len(structure_sql) :
          IsDropTable(structure_sql[i]) /\ IsAlterTable(structure_sql[j])
    /\ \E i \in 1..Len(data_sql) : StartsWith(data_sql[i], "TRUNCATE TABLE")

\* the three parts of the data block of table t
IsTruncateOf(s, t) == s = "TRUNCATE TABLE " \o BQ \o t \o BQ \o ";"
IsInsertHeaderOf(s, t) ==
    StartsWith(s, "INSERT INTO " \o BQ \o t \o BQ \o " (")
IsExportMarkerOf(s, t) ==
    s = "-- WARNING: Data for table " \o t \o " must be exported separately"

\* a line that can hold no row value: a comment, a blank line, USE, SET,
\* TRUNCATE, or an INSERT header that stops at VALUES
HoldsNoRow(s) ==
    \/ s = ""
    \/ IsComment(s)
    \/ StartsWith(s, "USE ")
    \/ StartsWith(s, "SET ")
    \/ StartsWith(s, "TRUNCATE TABLE ")
    \/ (StartsWith(s, "INSERT INTO ")
        /\ Len(s) >= 8 /\ SubSeq(s, Len(s) - 7, Len(s)) = ") VALUES")

\* C12: every table selected structure_and_data has in the data list a
\* TRUNCATE TABLE statement, an INSERT header with the column list and the
\* marker of the export to do separately, and no line of the data list
\* holds row values.
C12_DataBlocks ==
    pc = "generated" =>
        /\ \A t \in Range(selections.structure_and_data) :
              /\ \E i \in 1..Len(data_sql) : IsTruncateOf(data_sql[i], t)
              /\ \E i \in 1..Len(data_sql) : IsInsertHeaderOf(data_sql[i], t)
              /\ \E i \in 1..Len(data_sql) : IsExportMarkerOf(data_sql[i], t)
        /\ \A i \in 1..Len(data_sql) : HoldsNoRow(data_sql[i])

\* the tables of the TRUNCATE statements of list, in the order of the list
RECURSIVE TruncatedTables(_)
TruncatedTables(list) ==
    IF list = << >> THEN << >>
    ELSE (IF \E t \in Range(TableNames) : IsTruncateOf(Head(list), t)
          THEN << CHOOSE t \in Range(TableNames) : IsTruncateOf(Head(list), t) >>
          ELSE << >>)
         \o TruncatedTables(Tail(list))

\* the tables of the block comments of list, in the order of the list
RECURSIVE BlockTables(_)
BlockTables(list) ==
    IF list = << >> THEN << >>
    ELSE (IF \E t \in Range(TableNames) :
                StartsWith(Head(list),
                           "-- Synchronizing data for table " \o t \o " (")
          THEN << CHOOSE t \in Range(TableNames) :
                     StartsWith(Head(list),
                                "-- Synchronizing data for table " \o t \o " (") >>
          ELSE << >>)
         \o BlockTables(Tail(list))

\* C13: for a structure_and_data selection of tables of the source schema,
\* the data list holds one block per entry of the selection, in the order
\* of the selection, whatever the classification of the table.
C13_OneBlockEach ==
    (/\ pc = "api_data"
     /\ Range(selections.structure_and_data) \subseteq Tables1) =>
        /\ BlockTables(data_sql) = selections.structure_and_data
        /\ TruncatedTables(data_sql) = selections.structure_and_data

\* two tables selected in the order b, a, table a identical on both sides
C13_Witness ==
    /\ pc = "api_data"
    /\ selections.structure_and_data = << "b", "a" >>
    /\ "a" \in Range(differences.identical_tables)
    /\ TruncatedTables(data_sql) = << "b", "a" >>

\* no statement list generated, no file written, nothing asked of the
\* target connection
NothingProduced ==
    /\ structure_sql = << >>
    /\ data_sql = << >>
    /\ files = NoFiles
    /\ exec_log = << >>
    /\ sync_result = "none"

\* C14: once the user has answered q at a prompt of interactive_selection,
\* whatever the prompt and the choices made before, main has ended and no
\* statement list was generated, no file written and no statement executed.
C14_NoPlanOnAbort ==
    choice = "q" => (pc = "done" /\ selections = << >> /\ NothingProduced)

\* q answered at the second prompt, after the choice at the first one
C14_Witness ==
    /\ choice = "q"
    /\ pc = "done"
    /\ Len(Prompts(differences)) >= 2
    /\ Prompts(differences)[2].phase # "removed"
    /\ shown.table = Prompts(differences)[2].table

\* execute_sync has returned
SyncReturned == pc = "done" /\ sync_result # "none"

\* C15: whenever at least one statement failed during execute_sync, the
\* call reports failure (returns False) to its caller.
C15_FailureReported ==
    (SyncReturned /\ Failures(exec_log) # {}) => sync_result = "False"

\* the statements execute_sync has to attempt among the first n of
\* structure_sql
ToAttempt(n) ==
    SelectSeq(SubSeq(structure_sql, 1, n), LAMBDA statement : Executable(statement))

\* the requests of kind op in the log
Requests(op) == SelectSeq(exec_log, LAMBDA r : r.op = op)

\* C16: a statement that fails does not end execute_sync: while the loop
\* runs, the statements attempted are the non-empty, non-comment statements
\* passed so far, each once and in list order; at the return every such
\* statement of structure_sql was attempted once, in list order, whatever
\* failed, and one commit was issued, after the last statement.
C16_AllAttempted ==
    /\ pc = "exec_loop" =>
          /\ Len(Requests("execute")) = Len(ToAttempt(exec_i - 1))
          /\ \A k \in 1..Len(Requests("execute")) :
                Requests("execute")[k].statement = ToAttempt(exec_i - 1)[k]
          /\ Requests("commit") = << >>
    /\ (SyncReturned /\ structure_sql # << >>) =>
          LET n == Len(ToAttempt(Len(structure_sql)))
          IN /\ Len(exec_log) > n
             /\ \A k \in 1..n :
                   /\ exec_log[k].op = "execute"
                   /\ exec_log[k].statement = ToAttempt(Len(structure_sql))[k]
             /\ exec_log[n + 1].op = "commit"
             /\ Len(Requests("commit")) = 1

\* a statement failed, a later one succeeded, the commit went through
C16_Witness ==
    /\ SyncReturned
    /\ Cardinality(Failures(exec_log)) = 1
    /\ \E k \in 1..Len(exec_log) :
          /\ exec_log[k].op = "execute" /\ exec_log[k].ok
          /\ \E j \in Failures(exec_log) : j < k
    /\ exec_log[Len(exec_log)] = Committed(TRUE)

-----------------------------------------------------------------------------
(* Extraction failures, missing column data and the frozen schemas *)

\* the tables a returned schema records, with whatever data was retrieved
Recorded(schema) ==
    DOMAIN schema.tables \cup DOMAIN schema.columns \cup DOMAIN schema.indexes
    \cup DOMAIN schema.foreign_keys \cup DOMAIN schema.table_info

\* C17: when a query about one table raises in get_database_schema, every
\* table the catalog listed is still recorded in the schema returned
C17_OthersExtracted ==
    \A i \in DOMAIN catalogs :
        catalogs[i].failed # "" =>
            catalogs[i].listed \subseteq Recorded(catalogs[i].returned)

\* the tables of both extracted schemas whose column data is missing from
\* at least one of them
MissingColumns ==
    IF catalogs = << >> THEN {}
    ELSE LET r1 == catalogs[1].returned
             r2 == catalogs[2].returned
         IN {t \in DOMAIN r1.tables \cap DOMAIN r2.tables :
               t \notin DOMAIN r1.columns \/ t \notin DOMAIN r2.columns}

\* C18: at every classification of the two schemas, a table of both whose
\* column data is missing on at least one side is among the modified tables
\* and not among the identical ones
C18_MissingIsModified ==
    pc \in {"review_analyzed", "review_again"} =>
        \A t \in MissingColumns :
            /\ t \in Range(differences.modified_tables)
            /\ t \notin Range(differences.identical_tables)

\* C19: after get_database_schema returned them, both schemas stay exactly
\* as extracted through classification and reporting
C19_SchemasFrozen ==
    catalogs # << >> =>
        /\ schema1 = catalogs[1].returned
        /\ schema2 = catalogs[2].returned

\* the index names of table t that both schemas hold with different ordered
\* column lists
Reindexed(t) ==
    LET idx1_dict == GroupIndexes(GetIndexes(schema1, t))
        idx2_dict == GroupIndexes(GetIndexes(schema2, t))
    IN {k \in DOMAIN idx1_dict \cap DOMAIN idx2_dict :
          idx1_dict[k] # idx2_dict[k]}

\* C20: when the details of a table of both schemas were shown, every index
\* the two schemas hold under one name with different ordered column lists
\* is listed among the removed indexes with its target columns and among
\* the new indexes with its source columns
C20_ReindexedBothSides ==
    (pc = "review_shown" /\ shown.table # "" /\ ~shown.is_new_table) =>
        \A k \in Reindexed(shown.table) :
            LET idx1_dict == GroupIndexes(GetIndexes(schema1, shown.table))
                idx2_dict == GroupIndexes(GetIndexes(schema2, shown.table))
            IN /\ (k \o ": (" \o JoinNames(idx1_dict[k]) \o ")")
                      \in Range(shown.new_indexes)
               /\ (k \o ": (" \o JoinNames(idx2_dict[k]) \o ")")
                      \in Range(shown.removed_indexes)

-----------------------------------------------------------------------------
(* Classification against ALTER generation *)

\* C21: for a table of both schemas with column data on both sides,
\* generate_table_modifications returns no statement exactly when the table
\* was classified identical, and at least one ALTER TABLE statement exactly
\* when it was classified modified
C21_AlterIffModified ==
    pc = "review_altered" =>
        LET t == selections.structure_only[1]
        IN (t \in DOMAIN catalogs[1].returned.columns
                    \cap DOMAIN catalogs[2].returned.columns) =>
              /\ structure_sql = << >>
                    <=> t \in Range(differences.identical_tables)
              /\ (\E i \in 1..Len(structure_sql) :
                      IsAlterTable(structure_sql[i]))
                    <=> t \in Range(differences.modified_tables)

-----------------------------------------------------------------------------
(* What reaches the target connection in a whole run of main *)

\* the statements the target connection was asked to execute, in order
ExecutedStatements ==
    LET asked == SelectSeq(exec_log, LAMBDA r : r.op = "execute")
    IN [k \in 1..Len(asked) |-> asked[k].statement]

\* a non-empty line of a statement list that is no comment
IsCommand(s) == Strip(s) # "" /\ ~IsComment(Strip(s))

\* the statements both generated lists hold: USE and the two
\* SET FOREIGN_KEY_CHECKS
SharedStatements ==
    { s \in Range(structure_sql) \cap Range(data_sql) : IsCommand(s) }

\* every statement executed is a command of the structure list, and was
\* executed after the apply prompt was answered yes
FromStructureAfterYes ==
    \A k \in 1..Len(ExecutedStatements) :
        /\ ExecutedStatements[k] \in Range(structure_sql)
        /\ IsCommand(ExecutedStatements[k])
        /\ apply_changes \in YesAnswers

\* C22: across a whole run of main, every statement executed against the
\* target is a non-empty, non-comment element of the structure list and is
\* executed only after the apply prompt was answered yes; the executed
\* statements are, in order, the first commands of the structure list and
\* nothing more, so that no entry of the data list is ever executed (no
\* TRUNCATE TABLE and no INSERT header reaches the target)
C22_OnlyStructureAfterYes ==
    /\ FromStructureAfterYes
    /\ LET commands == SelectSeq(structure_sql, IsCommand)
       IN /\ Len(ExecutedStatements) <= Len(commands)
          /\ ExecutedStatements = SubSeq(commands, 1, Len(ExecutedStatements))
    /\ \A k \in 1..Len(ExecutedStatements) :
          /\ ~StartsWith(ExecutedStatements[k], "TRUNCATE TABLE")
          /\ ~StartsWith(ExecutedStatements[k], "INSERT INTO")

\* the run ended after a yes with a data list that has a table block, and
\* every command of the structure list was executed
C22_Witness ==
    /\ pc = "done"
    /\ apply_changes = "yes"
    /\ \E i \in 1..Len(data_sql) : StartsWith(data_sql[i], "TRUNCATE TABLE")
    /\ ExecutedStatements = SelectSeq(structure_sql, IsCommand)
    /\ Len(ExecutedStatements) > 3
    /\ SharedStatements # {}

-----------------------------------------------------------------------------
(* The selections interactive_selection returns *)

\* the selection lists that hold table t
ListsHolding(t) ==
    {l \in {"structure_only", "structure_and_data", "skip", "drop_tables"} :
        t \in Range(selections[l])}

\* C23: when interactive_selection has returned without a q, whatever was
\* typed at the prompts, every new and every modified table stands exactly
\* once in exactly one of structure_only, structure_and_data and skip,
\* drop_tables holds removed tables only, and no table stands in two lists
C23_SelectionsPartition ==
    pc = "selected" =>
        /\ \A t \in Range(differences.new_tables)
                      \cup Range(differences.modified_tables) :
              Count(selections.structure_only, t)
                + Count(selections.structure_and_data, t)
                + Count(selections.skip, t) = 1
        /\ Range(selections.drop_tables)
              \subseteq Range(differences.removed_tables)
        /\ \A t \in Range(TableNames) : Cardinality(ListsHolding(t)) <= 1

\* a new or modified table chosen with its data and a removed table chosen
\* for removal, the last answer being the yes to the removal
C23_Witness ==
    /\ pc = "selected"
    /\ Len(selections.structure_and_data) = 1
    /\ Len(selections.drop_tables) = 1
    /\ choice = "y"

=============================================================================
